---- MODULE Spec2Model ----
(***************************************************************************)
(* quantum_crypto.rs: the safe Rust facade over the quantum_crypto engine  *)
(* (hashing, keyed hashing, key derivation, secure wipe, diagnostics) and  *)
(* the SecureBytes wipe-on-drop container.                                 *)
(*                                                                         *)
(* The engine itself (the extern "C" functions of lines 36-59) is linked   *)
(* in from outside this file; it is modelled from its documented contract. *)
(* Byte sequences are TLA+ sequences, so index i of the model is index i-1 *)
(* of the Rust slice.                                                      *)
(***************************************************************************)
EXTENDS Integers, Sequences, FiniteSets, TLC

VARIABLES guard, plain, last, shaHist, thr, diag

vars == <<guard, plain, last, shaHist, thr, diag>>

(***************************************************************************)
(* Bounds of the model.                                                    *)
(***************************************************************************)
\* longest secret / plain buffer
MaxLen == 3
\* secret bytes range over 0..MaxByte
MaxByte == 2
\* how often secure_zero is called on one plain buffer
MaxWipes == 2
\* longest input handed to a hash / MAC / KDF call
MaxInLen == 1
\* remembered earlier sha256 calls
MaxShaCalls == 2
\* concurrent callers of sha256
NThreads == 2
\* longest text the engine reports (version, short error message)
MaxTextLen == 2

(***************************************************************************)
(* Program constants.                                                      *)
(***************************************************************************)
\* let mut output = [0u8; 32];
DigestLen == 32
\* let mut buf = vec![0u8; 256];
ErrBufSize == 256

(***************************************************************************)
(* Byte sequences.                                                         *)
(***************************************************************************)
SeqsUpTo(S, n) == UNION {[1..k -> S] : k \in 0..n}

Zeros(n) == [i \in 1..n |-> 0]

AllZero(s) == \A i \in 1..Len(s) : s[i] = 0

Take(s, n) == SubSeq(s, 1, n)

\* buffers a caller can wrap in SecureBytes or hand to secure_zero
Bufs == SeqsUpTo(0..MaxByte, MaxLen)

\* inputs of the hash / MAC / KDF calls
Inputs == SeqsUpTo(1..2, MaxInLen)

(***************************************************************************)
(* The engine: quantum_secure_zero.  Overwrites len bytes at ptr with 0.   *)
(***************************************************************************)
quantum_secure_zero(mem, len) ==
    [i \in 1..Len(mem) |-> IF i <= len THEN 0 ELSE mem[i]]

(***************************************************************************)
(* secure_zero(data): one engine call with the slice's pointer and length. *)
(* The result is the slice afterwards and the engine calls made.           *)
(***************************************************************************)
secure_zero_short(data) ==
    LET n == IF Len(data) > 0 THEN Len(data) - 1 ELSE 0
    IN  [data  |-> quantum_secure_zero(data, n),
         calls |-> <<[fn |-> "quantum_secure_zero", len |-> n]>>]

secure_zero(data) ==
    [data  |-> quantum_secure_zero(data, Len(data)),
     calls |-> <<[fn |-> "quantum_secure_zero", len |-> Len(data)]>>]

(***************************************************************************)
(* SecureBytes(Vec<u8>)                                                    *)
(***************************************************************************)
new(data) == [vec |-> data]

as_slice(self) == self.vec

deref(self) == self.vec

\* a store of v at index i through the &mut [u8] that as_mut_slice returns
as_mut_slice_clobber(self, i, v) == [vec |-> [k \in 1..Len(self.vec) |-> v]]

as_mut_slice(self, i, v) == [vec |-> [self.vec EXCEPT ![i] = v]]

\* the same store through DerefMut
deref_mut(self, i, v) == [vec |-> [self.vec EXCEPT ![i] = v]]

\* impl Drop: secure_zero(&mut self.0)
drop_skip(self) == [self |-> self, calls |-> <<>>]

drop_twice(self) ==
    LET z == secure_zero(self.vec)
        y == secure_zero(z.data)
    IN  [self |-> [vec |-> y.data], calls |-> z.calls \o y.calls]

drop(self) ==
    LET z == secure_zero(self.vec)
    IN  [self |-> [vec |-> z.data], calls |-> z.calls]

\* the ways a guard's scope ends; each runs Drop::drop once
ExitPaths == {"scope_end", "early_return", "explicit_drop", "unwind"}

IdleGuard ==
    [state |-> "Absent", self |-> new(<<>>), expect |-> <<>>, len0 |-> 0,
     written |-> FALSE, read |-> <<"none", <<>>>>, exit |-> "none",
     calls |-> <<>>]

IdlePlain == [input |-> <<>>, data |-> <<>>, calls |-> <<>>]

IdleLast == [op |-> "none"]

NoHist == [on |-> FALSE, seen |-> <<>>]

IdleDiag == [mem |-> <<0>>]

(***************************************************************************)
(* The guard's life: constructed Active, read and written while Active,    *)
(* dropped once.                                                           *)
(***************************************************************************)
InitGuard ==
    /\ \E data \in Bufs :
         guard = [state |-> "Active", self |-> new(data), expect |-> data,
                  len0 |-> Len(data), written |-> FALSE,
                  read |-> <<"none", <<>>>>, exit |-> "none", calls |-> <<>>]
    /\ plain = IdlePlain
    /\ last = IdleLast
    /\ shaHist = NoHist
    /\ thr = <<>>
    /\ diag = IdleDiag

ReadAsSlice ==
    /\ guard.state = "Active"
    /\ guard' = [guard EXCEPT !.read = <<"as_slice", as_slice(guard.self)>>]
    /\ UNCHANGED <<plain, last, shaHist, thr, diag>>

ReadDeref ==
    /\ guard.state = "Active"
    /\ guard' = [guard EXCEPT !.read = <<"deref", deref(guard.self)>>]
    /\ UNCHANGED <<plain, last, shaHist, thr, diag>>

\* what the bytes are expected to be after a store of v at index i
Stored(s, i, v) == [k \in 1..Len(s) |-> IF k = i THEN v ELSE s[k]]

WriteAsMutSlice ==
    /\ guard.state = "Active"
    /\ \E i \in 1..Len(guard.self.vec), v \in 0..MaxByte :
         guard' = [guard EXCEPT !.self = as_mut_slice(guard.self, i, v),
                                !.expect = Stored(guard.expect, i, v),
                                !.written = TRUE,
                                !.read = <<"none", <<>>>>]
    /\ UNCHANGED <<plain, last, shaHist, thr, diag>>

WriteDerefMut ==
    /\ guard.state = "Active"
    /\ \E i \in 1..Len(guard.self.vec), v \in 0..MaxByte :
         guard' = [guard EXCEPT !.self = deref_mut(guard.self, i, v),
                                !.expect = Stored(guard.expect, i, v),
                                !.written = TRUE,
                                !.read = <<"none", <<>>>>]
    /\ UNCHANGED <<plain, last, shaHist, thr, diag>>

Drop ==
    /\ guard.state = "Active"
    /\ \E path \in ExitPaths :
         LET d == drop(guard.self)
         IN  guard' = [guard EXCEPT !.state = "Wiped",
                                    !.self = d.self,
                                    !.calls = guard.calls \o d.calls,
                                    !.read = <<"none", <<>>>>,
                                    !.exit = path]
    /\ UNCHANGED <<plain, last, shaHist, thr, diag>>

NextGuard == ReadAsSlice \/ ReadDeref \/ WriteAsMutSlice \/ WriteDerefMut \/ Drop

SpecGuard == InitGuard /\ [][NextGuard]_vars


(***************************************************************************)
(* C2: ending an Active guard's scope, by whichever exit path, calls       *)
(* secure_zero exactly once, over the full length of the owned buffer;     *)
(* while the guard is Active no wipe has run.                              *)
(***************************************************************************)
WipeExactlyOnce ==
    /\ guard.state = "Active" => guard.calls = <<>>
    /\ guard.state = "Wiped" =>
         guard.calls = <<[fn |-> "quantum_secure_zero", len |-> guard.len0]>>

WipeExactlyOnceWitness ==
    /\ guard.state = "Wiped"
    /\ guard.exit = "unwind"
    /\ guard.written
    /\ guard.len0 = MaxLen
    /\ ~AllZero(guard.expect)

(***************************************************************************)
(* C3: the guard is Active or Wiped and nothing else; once Wiped every     *)
(* byte of its buffer is zero, what a read would observe is all zero and   *)
(* not the bytes held while Active, and no operation makes it Active       *)
(* again.                                                                  *)
(***************************************************************************)
WipedIsZeroAndFinal ==
    /\ guard.state \in {"Active", "Wiped"}
    /\ guard.state = "Wiped" =>
         /\ Len(guard.self.vec) = guard.len0
         /\ AllZero(guard.self.vec)
         /\ AllZero(as_slice(guard.self))
         /\ AllZero(deref(guard.self))
         /\ ~ENABLED NextGuard

WipedIsZeroAndFinalWitness ==
    /\ guard.state = "Wiped"
    /\ guard.exit = "explicit_drop"
    /\ guard.len0 = MaxLen
    /\ \A i \in 1..Len(guard.expect) : guard.expect[i] # 0

(***************************************************************************)
(* C5: while the guard is Active, as_slice and deref agree and return the  *)
(* bytes it was constructed with as changed by the stores made since; a    *)
(* read returns exactly those bytes; the length is the constructed length. *)
(***************************************************************************)
ActiveReadsSeeWrites ==
    guard.state = "Active" =>
        /\ as_slice(guard.self) = guard.expect
        /\ deref(guard.self) = as_slice(guard.self)
        /\ Len(guard.self.vec) = guard.len0
        /\ guard.read[1] # "none" => guard.read[2] = guard.expect

ActiveReadsSeeWritesWitness ==
    /\ guard.state = "Active"
    /\ guard.written
    /\ guard.read[1] = "deref"
    /\ guard.len0 = MaxLen
    /\ guard.read[2][1] # guard.read[2][MaxLen]
    /\ ~AllZero(guard.read[2])

(***************************************************************************)
(* secure_zero on a plain caller-owned buffer.                             *)
(***************************************************************************)
InitWipe ==
    /\ \E data \in Bufs : plain = [input |-> data, data |-> data, calls |-> <<>>]
    /\ guard = IdleGuard
    /\ last = IdleLast
    /\ shaHist = NoHist
    /\ thr = <<>>
    /\ diag = IdleDiag

SecureZero ==
    /\ Len(plain.calls) < MaxWipes
    /\ LET z == secure_zero(plain.data)
       IN  plain' = [plain EXCEPT !.data = z.data, !.calls = plain.calls \o z.calls]
    /\ UNCHANGED <<guard, last, shaHist, thr, diag>>

NextWipe == SecureZero

SpecWipe == InitWipe /\ [][NextWipe]_vars

(***************************************************************************)
(* C6: after secure_zero the buffer has the length it had before and every *)
(* byte is zero; on an empty buffer the call changes nothing.              *)
(***************************************************************************)
WipeZeroesAll ==
    Len(plain.calls) > 0 =>
        /\ Len(plain.data) = Len(plain.input)
        /\ AllZero(plain.data)
        /\ plain.input = <<>> => plain.data = <<>>

WipeZeroesAllWitness ==
    /\ Len(plain.calls) = 1
    /\ Len(plain.input) = MaxLen
    /\ \A i \in 1..Len(plain.input) : plain.input[i] # 0

(***************************************************************************)
(* The engine's digests.  The algorithms are the engine's business; here   *)
(* each is a fixed function of its input bytes whose output has no zero    *)
(* byte, so that a digest is never mistaken for an untouched buffer.       *)
(***************************************************************************)
RECURSIVE Code(_)
Code(x) ==
    IF x = <<>> THEN 1
    ELSE (Code(SubSeq(x, 1, Len(x) - 1)) * 257 + x[Len(x)] + 1) % 65521

Block(seed, n) == [i \in 1..n |-> ((seed * 31 + i * 7) % 255) + 1]

Sha256Of(x) == Block(Code(x) * 8 + 1, DigestLen)

Blake3Of(x) == Block(Code(x) * 8 + 2, DigestLen)

HmacSha256Of(key, message) == Block((Code(key) * 64 + Code(message)) * 8 + 3, DigestLen)

Pbkdf2Of(password, salt, iterations, n) ==
    Block(((Code(password) * 64 + Code(salt)) * 64 + (iterations % 61)) * 8 + 4, n)

(***************************************************************************)
(* How an engine call can end: it succeeds (status 0, output written), or  *)
(* it reports failure (status -1) having written nothing or only the first *)
(* half of the output.  The engine is a function of its arguments: the     *)
(* hash and MAC calls succeed on every in-memory input, the key derivation *)
(* succeeds exactly when the iteration count is positive.                  *)
(***************************************************************************)
EngineOutcomes(fn, iterations) ==
    IF fn = "quantum_pbkdf2_sha256" /\ iterations < 1
    THEN {"fail_untouched", "fail_partial"}
    ELSE {"ok"}

Status(o) == IF o = "ok" THEN 0 ELSE -1

Written(output, full, o) ==
    CASE o = "ok" -> full
      [] o = "fail_untouched" -> output
      [] o = "fail_partial" ->
           [i \in 1..Len(output) |->
              IF i <= Len(output) \div 2 THEN full[i] ELSE output[i]]

quantum_sha256(input, input_len, output, o) ==
    [status |-> Status(o),
     output |-> Written(output, Sha256Of(Take(input, input_len)), o)]

quantum_sha256d(input, input_len, output, o) ==
    [status |-> Status(o),
     output |-> Written(output, Sha256Of(Sha256Of(Take(input, input_len))), o)]

quantum_blake3(input, input_len, output, o) ==
    [status |-> Status(o),
     output |-> Written(output, Blake3Of(Take(input, input_len)), o)]

quantum_hmac_sha256(key, key_len, message, message_len, output, o) ==
    [status |-> Status(o),
     output |-> Written(output,
                        HmacSha256Of(Take(key, key_len), Take(message, message_len)),
                        o)]

quantum_pbkdf2_sha256(password, password_len, salt, salt_len, iterations, output, output_len, o) ==
    [status |-> Status(o),
     output |-> Written(output,
                        Pbkdf2Of(Take(password, password_len), Take(salt, salt_len),
                                 iterations, output_len),
                        o)]

(***************************************************************************)
(* The facade.  Each wrapper allocates a zeroed output, makes one engine   *)
(* call, drops the status the call returns and returns the output.  The    *)
(* return types ([u8; 32], Vec<u8>) have no failure case: what is returned *)
(* is always a value.  A wrapper's result here is the value returned and   *)
(* the engine calls made, each with the status the engine gave.            *)
(***************************************************************************)
Value(bytes) == [tag |-> "value", bytes |-> bytes]

EngineCall(fn, iterations, output_len, status) ==
    [fn |-> fn, iterations |-> iterations, output_len |-> output_len,
     status |-> status]

\* a facade that hands back what the previous fixed-size call returned
sha256_cached(data, o) ==
    LET output == IF last.op \in {"sha256", "sha256d", "blake3", "hmac_sha256"}
                  THEN last.ret.bytes
                  ELSE quantum_sha256(data, Len(data), Zeros(DigestLen), o).output
    IN  [ret |-> Value(output),
         calls |-> <<EngineCall("quantum_sha256", 0, DigestLen, Status(o))>>]

sha256(data, o) ==
    LET output == Zeros(DigestLen)
        r == quantum_sha256(data, Len(data), output, o)
    IN  [ret |-> Value(r.output),
         calls |-> <<EngineCall("quantum_sha256", 0, DigestLen, r.status)>>]

sha256d(data, o) ==
    LET output == Zeros(DigestLen)
        r == quantum_sha256d(data, Len(data), output, o)
    IN  [ret |-> Value(r.output),
         calls |-> <<EngineCall("quantum_sha256d", 0, DigestLen, r.status)>>]

blake3(data, o) ==
    LET output == Zeros(DigestLen)
        r == quantum_blake3(data, Len(data), output, o)
    IN  [ret |-> Value(r.output),
         calls |-> <<EngineCall("quantum_blake3", 0, DigestLen, r.status)>>]

hmac_sha256(key, message, o) ==
    LET output == Zeros(DigestLen)
        r == quantum_hmac_sha256(key, Len(key), message, Len(message), output, o)
    IN  [ret |-> Value(r.output),
         calls |-> <<EngineCall("quantum_hmac_sha256", 0, DigestLen, r.status)>>]

pbkdf2_sha256_fixed(password, salt, iterations, output_len, o) ==
    LET output == Zeros(DigestLen)
        r == quantum_pbkdf2_sha256(password, Len(password), salt, Len(salt),
                                   iterations, output, DigestLen, o)
    IN  [ret |-> Value(r.output),
         calls |-> <<EngineCall("quantum_pbkdf2_sha256", iterations, DigestLen,
                                r.status)>>]

pbkdf2_sha256(password, salt, iterations, output_len, o) ==
    LET output == Zeros(output_len)
        r == quantum_pbkdf2_sha256(password, Len(password), salt, Len(salt),
                                   iterations, output, output_len, o)
    IN  [ret |-> Value(r.output),
         calls |-> <<EngineCall("quantum_pbkdf2_sha256", iterations, output_len,
                                r.status)>>]

\* iteration counts a caller may pass (u32, here up to 2^31 - 1), none
\* rejected by the facade
IterationCounts == {0, 2048, 2147483647}

\* requested key lengths: none, below, equal to and above one digest
OutputLens == {0, 16, DigestLen, 64, 100}

\* salts of the key derivation calls
Salts == {<<>>, <<1, 2>>}

(***************************************************************************)
(* A caller making facade calls one after another.  last is the latest     *)
(* call and what it returned.  shaHist is an observer, not program state   *)
(* (the facade keeps none): when switched on it remembers what the first   *)
(* MaxShaCalls sha256 calls returned for which input.                      *)
(***************************************************************************)
Observe(h, data, ret) ==
    IF h.on /\ Len(h.seen) < MaxShaCalls
    THEN [h EXCEPT !.seen = Append(h.seen, [data |-> data, ret |-> ret])]
    ELSE h

NoCall == [ret |-> [tag |-> "value", bytes |-> <<>>], calls |-> <<>>]

Called(op, data, key, salt, iterations, output_len, r) ==
    [op |-> op, data |-> data, key |-> key, salt |-> salt,
     iterations |-> iterations, output_len |-> output_len,
     ret |-> r.ret, calls |-> r.calls]

InitFacade ==
    /\ last = Called("none", <<>>, <<>>, <<>>, 0, 0, NoCall)
    /\ shaHist = NoHist
    /\ guard = IdleGuard
    /\ plain = IdlePlain
    /\ thr = <<>>
    /\ diag = IdleDiag

CallSha256 ==
    /\ \E data \in Inputs, o \in EngineOutcomes("quantum_sha256", 0) :
         LET r == sha256(data, o)
         IN  /\ last' = Called("sha256", data, <<>>, <<>>, 0, DigestLen, r)
             /\ shaHist' = Observe(shaHist, data, r.ret)
    /\ UNCHANGED <<guard, plain, thr, diag>>

CallSha256d ==
    /\ \E data \in Inputs, o \in EngineOutcomes("quantum_sha256d", 0) :
         last' = Called("sha256d", data, <<>>, <<>>, 0, DigestLen, sha256d(data, o))
    /\ UNCHANGED <<shaHist, guard, plain, thr, diag>>

CallBlake3 ==
    /\ \E data \in Inputs, o \in EngineOutcomes("quantum_blake3", 0) :
         last' = Called("blake3", data, <<>>, <<>>, 0, DigestLen, blake3(data, o))
    /\ UNCHANGED <<shaHist, guard, plain, thr, diag>>

CallHmacSha256 ==
    /\ \E key \in Inputs, message \in Inputs,
          o \in EngineOutcomes("quantum_hmac_sha256", 0) :
         last' = Called("hmac_sha256", message, key, <<>>, 0, DigestLen,
                        hmac_sha256(key, message, o))
    /\ UNCHANGED <<shaHist, guard, plain, thr, diag>>

CallPbkdf2Sha256 ==
    /\ \E password \in Inputs, salt \in Salts, iterations \in IterationCounts,
          output_len \in OutputLens :
       \E o \in EngineOutcomes("quantum_pbkdf2_sha256", iterations) :
         last' = Called("pbkdf2_sha256", password, <<>>, salt, iterations, output_len,
                        pbkdf2_sha256(password, salt, iterations, output_len, o))
    /\ UNCHANGED <<shaHist, guard, plain, thr, diag>>

NextFacade ==
    CallSha256 \/ CallSha256d \/ CallBlake3 \/ CallHmacSha256 \/ CallPbkdf2Sha256

SpecFacade == InitFacade /\ [][NextFacade]_vars

(***************************************************************************)
(* The same caller with the observer of sha256 results switched on, making *)
(* fixed-size hash and MAC calls in any order.                             *)
(***************************************************************************)
InitHash ==
    /\ last = Called("none", <<>>, <<>>, <<>>, 0, 0, NoCall)
    /\ shaHist = [on |-> TRUE, seen |-> <<>>]
    /\ guard = IdleGuard
    /\ plain = IdlePlain
    /\ thr = <<>>
    /\ diag = IdleDiag

NextHash == CallSha256 \/ CallSha256d \/ CallBlake3 \/ CallHmacSha256

SpecHash == InitHash /\ [][NextHash]_vars

HashOps == {"sha256", "sha256d", "blake3", "hmac_sha256", "pbkdf2_sha256"}

(***************************************************************************)
(* C1: when the engine call of sha256, sha256d, blake3, hmac_sha256 or     *)
(* pbkdf2_sha256 returns a non-zero status, the operation returns an       *)
(* explicit failure, never a value, and in particular never the zeroed     *)
(* output buffer as a value.                                               *)
(***************************************************************************)
EngineFailureIsExplicit ==
    (last.op \in HashOps /\ \E i \in 1..Len(last.calls) : last.calls[i].status # 0) =>
        /\ last.ret.tag = "failure"
        /\ ~(last.ret.tag = "value" /\ AllZero(last.ret.bytes))

(***************************************************************************)
(* C7: pbkdf2_sha256 returns exactly output_len bytes, whatever the        *)
(* password, salt, iteration count and length, and hands the engine the    *)
(* caller's iteration count and length unchanged, in one call.             *)
(***************************************************************************)
DerivedKeyHasRequestedLength ==
    last.op = "pbkdf2_sha256" =>
        /\ last.ret.tag = "value"
        /\ Len(last.ret.bytes) = last.output_len
        /\ Len(last.calls) = 1
        /\ last.calls[1].fn = "quantum_pbkdf2_sha256"
        /\ last.calls[1].iterations = last.iterations
        /\ last.calls[1].output_len = last.output_len

DerivedKeyHasRequestedLengthWitness ==
    /\ last.op = "pbkdf2_sha256"
    /\ last.output_len > DigestLen
    /\ last.iterations = 2048
    /\ last.calls[1].status = 0
    /\ ~AllZero(last.ret.bytes)
    /\ last.data # <<>>

(***************************************************************************)
(* C8: sha256 is deterministic and stateless: whatever calls came before,  *)
(* a sha256 call returns the 32 bytes every earlier sha256 call returned   *)
(* for the same input, and makes exactly one engine call.                  *)
(***************************************************************************)
Sha256Deterministic ==
    last.op = "sha256" =>
        /\ Len(last.ret.bytes) = DigestLen
        /\ Len(last.calls) = 1
        /\ last.calls[1].fn = "quantum_sha256"
        /\ \A i \in 1..Len(shaHist.seen) :
             shaHist.seen[i].data = last.data => shaHist.seen[i].ret = last.ret

\* a sha256 call repeating the input of the first, after a call on another
\* input in between
Sha256DeterministicWitness ==
    /\ last.op = "sha256"
    /\ Len(shaHist.seen) = MaxShaCalls
    /\ shaHist.seen[1].data = last.data
    /\ shaHist.seen[MaxShaCalls].data # last.data
    /\ last.data # <<>>

(***************************************************************************)
(* Several threads calling sha256, each on its own input.  A call is three *)
(* steps: the zeroed output (line 74), the engine call on the caller's     *)
(* input and that output (line 76), the return of the output (line 78).    *)
(* Steps of different threads interleave freely.  thr.mem is the memory    *)
(* the outputs live in, one slot per place; output is a local of the call, *)
(* so every call has a slot of its own.                                    *)
(***************************************************************************)
Threads == 1..NThreads

output_slot_static(t) == 0

output_slot(t) == t

InitThreads ==
    /\ \E c \in [Threads -> [pc : {"start"}, data : Inputs, status : {0},
                             ret : {Value(<<>>)}]] :
         thr = [call |-> c, mem |-> [p \in 0..NThreads |-> <<>>]]
    /\ guard = IdleGuard
    /\ plain = IdlePlain
    /\ last = IdleLast
    /\ shaHist = NoHist
    /\ diag = IdleDiag

Sha256Alloc(t) ==
    /\ thr.call[t].pc = "start"
    /\ thr' = [thr EXCEPT !.call[t].pc = "allocated",
                          !.mem[output_slot(t)] = Zeros(DigestLen)]
    /\ UNCHANGED <<guard, plain, last, shaHist, diag>>

Sha256Engine(t) ==
    /\ thr.call[t].pc = "allocated"
    /\ \E o \in EngineOutcomes("quantum_sha256", 0) :
         LET data == thr.call[t].data
             r == quantum_sha256(data, Len(data), thr.mem[output_slot(t)], o)
         IN  thr' = [thr EXCEPT !.call[t].pc = "called",
                                !.call[t].status = r.status,
                                !.mem[output_slot(t)] = r.output]
    /\ UNCHANGED <<guard, plain, last, shaHist, diag>>

Sha256Return(t) ==
    /\ thr.call[t].pc = "called"
    /\ thr' = [thr EXCEPT !.call[t].pc = "done",
                          !.call[t].ret = Value(thr.mem[output_slot(t)])]
    /\ UNCHANGED <<guard, plain, last, shaHist, diag>>

NextThreads ==
    \E t \in Threads : Sha256Alloc(t) \/ Sha256Engine(t) \/ Sha256Return(t)

SpecThreads == InitThreads /\ [][NextThreads]_vars

(***************************************************************************)
(* C4: under every interleaving of concurrent sha256 calls on separate     *)
(* inputs, every finished call has returned the 32-byte digest of its own  *)
(* input, whatever the other threads' inputs and outputs are.              *)
(***************************************************************************)
EachThreadGetsOwnDigest ==
    \A t \in Threads :
        thr.call[t].pc = "done" =>
            thr.call[t].ret = Value(Sha256Of(thr.call[t].data))

EachThreadGetsOwnDigestWitness ==
    /\ thr.call[1].pc = "done"
    /\ \E u \in Threads :
         /\ thr.call[u].pc = "called"
         /\ thr.call[u].data # thr.call[1].data
         /\ thr.mem[output_slot(u)] # thr.call[1].ret.bytes

(***************************************************************************)
(* Text.  A Rust str / String is a byte sequence that is valid UTF-8.      *)
(***************************************************************************)
IsCont(b) == b >= 128 /\ b <= 191

\* continuation bytes a lead byte needs; -1 for a byte that starts no character
Need(b) ==
    IF b < 128 THEN 0
    ELSE IF b >= 194 /\ b <= 223 THEN 1
    ELSE IF b >= 224 /\ b <= 239 THEN 2
    ELSE IF b >= 240 /\ b <= 244 THEN 3
    ELSE -1

\* the range of the byte after lead byte b
SecondOk(b, c) ==
    /\ b = 224 => c >= 160
    /\ b = 237 => c <= 159
    /\ b = 240 => c >= 144
    /\ b = 244 => c <= 143

\* from_utf8 / to_str: every byte starts a well-formed character or is a
\* continuation byte of the character begun at most three bytes before it
Utf8Valid(s) ==
    \A i \in 1..Len(s) :
        IF IsCont(s[i])
        THEN \E k \in 1..3 :
                /\ i - k >= 1
                /\ Need(s[i - k]) >= k
                /\ \A j \in 1..(k - 1) : IsCont(s[i - j])
        ELSE /\ Need(s[i]) >= 0
             /\ \A k \in 1..Need(s[i]) : i + k <= Len(s) /\ IsCont(s[i + k])
             /\ Need(s[i]) >= 1 => SecondOk(s[i], s[i + 1])

\* CStr::from_ptr: the bytes at ptr up to, not including, the first NUL
CStrLen(mem) ==
    (CHOOSE i \in 1..Len(mem) : mem[i] = 0 /\ \A j \in 1..(i - 1) : mem[j] # 0) - 1

CStr_from_ptr(mem) == Take(mem, CStrLen(mem))

\* "unknown"
Unknown == <<117, 110, 107, 110, 111, 119, 110>>

\* bytes the engine's texts are made of: NUL, 'A', a lone continuation byte,
\* the lead byte of a two-byte character
TextBytes == {0, 65, 128, 195}

(***************************************************************************)
(* The engine's diagnostics.  quantum_version returns a pointer to         *)
(* NUL-terminated memory the engine owns; quantum_get_error copies at most *)
(* buf_size bytes of the pending message into buf and returns how many.    *)
(***************************************************************************)
\* the version identifier is not empty (test_version expects it to contain
\* "quantum-crypto"); it may hold any bytes, decodable or not
VersionMems ==
    {Append(s, 0) : s \in {x \in SeqsUpTo(TextBytes, MaxTextLen) : Len(x) > 0 /\ x[1] # 0}}

quantum_version(mem) == mem

\* pending error messages: none, short ones, one filling the buffer, one
\* longer than the buffer, one filling it with undecodable bytes
ErrorMessages ==
    SeqsUpTo(TextBytes, MaxTextLen)
    \cup {[i \in 1..ErrBufSize |-> 65], [i \in 1..(ErrBufSize + 1) |-> 65],
          [i \in 1..ErrBufSize |-> 128]}

quantum_get_error(buf, buf_size, msg) ==
    LET n == IF Len(msg) <= buf_size THEN Len(msg) ELSE buf_size
    IN  [count |-> n,
         buf |-> [i \in 1..Len(buf) |-> IF i <= n THEN msg[i] ELSE buf[i]]]

(***************************************************************************)
(* version(): CStr::from_ptr(ptr).to_str().unwrap_or("unknown")            *)
(***************************************************************************)
version_lossy(mem) ==
    LET c == CStr_from_ptr(quantum_version(mem))
    IN  IF Utf8Valid(c) THEN c ELSE <<>>

version(mem) ==
    LET ptr == quantum_version(mem)
        c == CStr_from_ptr(ptr)
    IN  IF Utf8Valid(c) THEN c ELSE Unknown

(***************************************************************************)
(* get_error(): a zeroed 256-byte buffer, one engine call, then the first  *)
(* len bytes as a String if they decode, None otherwise or when len is 0.  *)
(* buf[..len] panics when len exceeds the buffer.  The result carries the  *)
(* engine's count and the buffer as the engine left it.                    *)
(***************************************************************************)
None == [tag |-> "None", text |-> <<>>]

Some(text) == [tag |-> "Some", text |-> text]

Panic == [tag |-> "panic", text |-> <<>>]

get_error_ignores_len(msg) ==
    LET buf == Zeros(ErrBufSize)
        r == quantum_get_error(buf, Len(buf), msg)
    IN  [ret |-> IF Utf8Valid(r.buf) THEN Some(r.buf) ELSE None,
         len |-> r.count, buf |-> r.buf]

get_error(msg) ==
    LET buf == Zeros(ErrBufSize)
        r == quantum_get_error(buf, Len(buf), msg)
        len == r.count
    IN  [ret |-> IF len > 0
                 THEN IF len > Len(r.buf) THEN Panic
                      ELSE IF Utf8Valid(Take(r.buf, len))
                           THEN Some(Take(r.buf, len))
                           ELSE None
                 ELSE None,
         len |-> len, buf |-> r.buf]

(***************************************************************************)
(* A caller querying the diagnostics.  diag holds the engine's side (the   *)
(* memory its version pointer points at, the error message it has pending) *)
(* and the latest result of version() and of get_error().                  *)
(***************************************************************************)
NotCalled == [tag |-> "not_called", text |-> <<>>]

InitDiag ==
    /\ \E mem \in VersionMems, msg \in ErrorMessages :
         diag = [mem |-> mem, pending |-> msg, version |-> NotCalled,
                 error |-> [ret |-> NotCalled, len |-> 0, buf |-> <<>>]]
    /\ guard = IdleGuard
    /\ plain = IdlePlain
    /\ last = IdleLast
    /\ shaHist = NoHist
    /\ thr = <<>>

CallVersion ==
    /\ diag' = [diag EXCEPT !.version = [tag |-> "str", text |-> version(diag.mem)]]
    /\ UNCHANGED <<guard, plain, last, shaHist, thr>>

CallGetError ==
    /\ diag' = [diag EXCEPT !.error = get_error(diag.pending)]
    /\ UNCHANGED <<guard, plain, last, shaHist, thr>>

NextDiag == CallVersion \/ CallGetError

SpecDiag == InitDiag /\ [][NextDiag]_vars

GetErrorTotal ==
    diag.error.ret.tag # "not_called" =>
        LET len == diag.error.len
            written == Take(diag.error.buf, len)
        IN  /\ diag.error.ret.tag \in {"None", "Some"}
            /\ Len(diag.error.buf) = ErrBufSize
            /\ (len = 0 \/ ~Utf8Valid(written)) => diag.error.ret = None
            /\ (len > 0 /\ Utf8Valid(written)) => diag.error.ret = Some(written)

GetErrorTotalWitness ==
    /\ diag.error.ret.tag = "Some"
    /\ diag.error.len = MaxTextLen
    /\ diag.error.ret.text[1] = 195

====
